---- MODULE Spec2Model ----
(***************************************************************************)
(* Model of the cloud CLI tool servers (aws_cli, azure_cli, gcloud_cli,    *)
(* gsutil_cli, bq_cli): the command-safety gate (_is_safe_command) and the *)
(* command pipeline built on it.  A command is a sequence of one-character *)
(* strings, so that substring matching, lower-casing, stripping and        *)
(* tokenization are computed as the Python code computes them.  The        *)
(* backquote character cannot be written in a string of this language and *)
(* is written "backtick".                                                  *)
(***************************************************************************)
EXTENDS Integers, Sequences, FiniteSets, TLC

(***************************************************************************)
(* Bounds of the model.                                                    *)
(***************************************************************************)
\* Longest command, in fragments of Frags, that the gate is evaluated on.
MaxFrags == 3

(***************************************************************************)
(* Strings.                                                                *)
(***************************************************************************)
\* str.__contains__: pattern p occurs in s as a contiguous substring.
Contains(s, p) ==
    \E k \in 0..(Len(s) - Len(p)) : SubSeq(s, k + 1, k + Len(p)) = p

\* str.startswith
StartsWith(s, p) ==
    /\ Len(p) <= Len(s)
    /\ SubSeq(s, 1, Len(p)) = p

\* str.endswith
EndsWith(s, p) ==
    /\ Len(p) <= Len(s)
    /\ SubSeq(s, Len(s) - Len(p) + 1, Len(s)) = p

UpperChars == <<"A", "B", "C", "D", "E", "F", "G", "H", "I", "J", "K", "L", "M", "N", "O", "P", "Q", "R", "S", "T", "U", "V", "W", "X", "Y", "Z">>
LowerChars == <<"a", "b", "c", "d", "e", "f", "g", "h", "i", "j", "k", "l", "m", "n", "o", "p", "q", "r", "s", "t", "u", "v", "w", "x", "y", "z">>

\* str.lower on one character (ASCII letters; every other character of the
\* model's alphabet is its own lower case).
LowerChar(c) ==
    IF \E k \in 1..Len(UpperChars) : UpperChars[k] = c
    THEN LowerChars[CHOOSE k \in 1..Len(UpperChars) : UpperChars[k] = c]
    ELSE c

\* str.lower
Lower(s) == [k \in 1..Len(s) |-> LowerChar(s[k])]

\* The characters str.strip() removes.
StripChars == {" ", "\t", "\n", "\r", "\f"}

RECURSIVE LStrip(_)
LStrip(s) ==
    IF s # <<>> /\ Head(s) \in StripChars THEN LStrip(Tail(s)) ELSE s

RECURSIVE RStrip(_)
RStrip(s) ==
    IF s # <<>> /\ s[Len(s)] \in StripChars
    THEN RStrip(SubSeq(s, 1, Len(s) - 1))
    ELSE s

\* str.strip
Strip(s) == RStrip(LStrip(s))

(***************************************************************************)
(* The rule tables of the three server classes.                            *)
(***************************************************************************)
\* AWSMCPServer._is_safe_command: dangerous_patterns
AWS_dangerous_patterns ==
    << <<"r", "m">>,
       <<"d", "e", "l", "e", "t", "e">>,
       <<"d", "e", "s", "t", "r", "o", "y">>,
       <<"t", "e", "r", "m", "i", "n", "a", "t", "e">>,
       <<"&", "&">>,
       <<"|", "|">>,
       <<";">>,
       <<"|">>,
       <<">">>,
       <<"<">>,
       <<"s", "u", "d", "o">>,
       <<"s", "u">>,
       <<"c", "h", "m", "o", "d">>,
       <<"c", "h", "o", "w", "n">>,
       <<"e", "v", "a", "l">>,
       <<"e", "x", "e", "c">>,
       <<"s", "y", "s", "t", "e", "m">> >>

\* AzureMCPServer._is_safe_command: dangerous_patterns
Azure_dangerous_patterns ==
    << <<"d", "e", "l", "e", "t", "e">>,
       <<"r", "e", "m", "o", "v", "e">>,
       <<"d", "e", "s", "t", "r", "o", "y">>,
       <<"p", "u", "r", "g", "e">>,
       <<"&", "&">>,
       <<"|", "|">>,
       <<";">>,
       <<"|">>,
       <<">">>,
       <<"<">>,
       <<"s", "u", "d", "o">>,
       <<"s", "u">>,
       <<"c", "h", "m", "o", "d">>,
       <<"c", "h", "o", "w", "n">>,
       <<"e", "v", "a", "l">>,
       <<"e", "x", "e", "c">>,
       <<"s", "y", "s", "t", "e", "m">>,
       <<"r", "m", " ">>,
       <<"d", "e", "p", "l", "o", "y", "m", "e", "n", "t", " ", "d", "e", "l", "e", "t", "e">>,
       <<"g", "r", "o", "u", "p", " ", "d", "e", "l", "e", "t", "e">>,
       <<"v", "m", " ", "d", "e", "l", "e", "t", "e">>,
       <<"d", "i", "s", "k", " ", "d", "e", "l", "e", "t", "e">>,
       <<"k", "e", "y", "v", "a", "u", "l", "t", " ", "d", "e", "l", "e", "t", "e">>,
       <<"s", "t", "o", "r", "a", "g", "e", " ", "d", "e", "l", "e", "t", "e">> >>

\* GCPMCPServer._is_safe_command: dangerous_patterns
GCP_dangerous_patterns ==
    << <<"&", "&">>,
       <<"|", "|">>,
       <<";">>,
       <<"|">>,
       <<">">>,
       <<"<">>,
       <<">", ">">>,
       <<"<", "<">>,
       <<"s", "u", "d", "o">>,
       <<"s", "u">>,
       <<"c", "h", "m", "o", "d">>,
       <<"c", "h", "o", "w", "n">>,
       <<"r", "m">>,
       <<"d", "e", "l">>,
       <<"e", "v", "a", "l">>,
       <<"e", "x", "e", "c">>,
       <<"s", "y", "s", "t", "e", "m">>,
       <<"s", "h">>,
       <<"b", "a", "s", "h">>,
       <<"d", "e", "l", "e", "t", "e">>,
       <<"d", "e", "s", "t", "r", "o", "y">>,
       <<"r", "e", "m", "o", "v", "e">>,
       <<"t", "e", "r", "m", "i", "n", "a", "t", "e">>,
       <<"m", "v">>,
       <<"c", "p">>,
       <<"m", "o", "v", "e">>,
       <<"c", "o", "p", "y">>,
       <<"c", "u", "r", "l">>,
       <<"w", "g", "e", "t">>,
       <<"s", "s", "h">>,
       <<"s", "c", "p">>,
       <<"r", "s", "y", "n", "c">> >>

\* GCPMCPServer._is_safe_command: the markers that excuse "delete"
GCP_safe_delete ==
    << <<"i", "n", "s", "t", "a", "n", "c", "e", "s", " ", "l", "i", "s", "t">>,
       <<"p", "r", "o", "j", "e", "c", "t", "s", " ", "l", "i", "s", "t">>,
       <<"i", "m", "a", "g", "e", "s", " ", "l", "i", "s", "t">>,
       <<"d", "i", "s", "k", "s", " ", "l", "i", "s", "t">>,
       <<"s", "n", "a", "p", "s", "h", "o", "t", "s", " ", "l", "i", "s", "t">>,
       <<"-", "-", "d", "r", "y", "-", "r", "u", "n">>,
       <<"-", "-", "h", "e", "l", "p">> >>

\* GCPMCPServer._is_safe_command: suspicious_chars
GCP_suspicious_chars ==
    << <<"$", "(">>,
       <<"backtick">>,
       <<"$", "{">>,
       <<"\\">>,
       <<"&", "&">>,
       <<"|", "|">> >>

Dash == <<"-">>
DashDash == <<"-", "-">>
DeleteWord == <<"d", "e", "l", "e", "t", "e">>
SpDeleteSp == <<" ", "d", "e", "l", "e", "t", "e", " ">>
SpDelete == <<" ", "d", "e", "l", "e", "t", "e">>

\* ScanPatterns with the return of the loop body misplaced: only the first
\* pattern of the list is ever tried.
ScanPatterns_first_only(patterns, command_lower) ==
    IF Contains(command_lower, patterns[1]) THEN 1 ELSE 0

\* The for loop over dangerous_patterns of the AWS and Azure gates: the index
\* of the pattern at which the loop returns False (the first pattern, in
\* list order, that occurs in the command), 0 when it runs to the end.
ScanPatterns(patterns, command_lower) ==
    LET hits == { k \in 1..Len(patterns) :
                      Contains(command_lower, patterns[k]) }
    IN  IF hits = {} THEN 0
        ELSE CHOOSE k \in hits : \A m \in hits : k <= m

\* The for loop of the GCP gate: a matching "delete" is skipped (continue)
\* when the command also holds one of the GCP_safe_delete markers; the loop
\* returns False at the first matching pattern that is not skipped.
GCP_ScanPatterns(command_lower) ==
    LET excused == \E m \in 1..Len(GCP_safe_delete) :
                       Contains(command_lower, GCP_safe_delete[m])
        hits == { k \in 1..Len(GCP_dangerous_patterns) :
                      /\ Contains(command_lower, GCP_dangerous_patterns[k])
                      /\ ~ (GCP_dangerous_patterns[k] = DeleteWord /\ excused) }
    IN  IF hits = {} THEN 0
        ELSE CHOOSE k \in hits : \A m \in hits : k <= m

\* StartsWithDash written as a substring test ("-" in command).
StartsWithDash_anywhere(command) == Contains(command, Dash)

\* StartsWithDash testing the long-option prefix only.
StartsWithDash_double_only(command) == StartsWith(command, DashDash)

\* command.startswith("-") or command.startswith("--")
StartsWithDash(command) ==
    StartsWith(command, Dash) \/ StartsWith(command, DashDash)

\* AWS_is_safe_command without the lower-casing of the command.
AWS_is_safe_command_case_sensitive(command) ==
    IF ScanPatterns(AWS_dangerous_patterns, command) # 0 THEN FALSE
    ELSE IF StartsWithDash(command) THEN FALSE
    ELSE TRUE

AWS_is_safe_command(command) ==
    LET command_lower == Lower(command) IN
    IF ScanPatterns(AWS_dangerous_patterns, command_lower) # 0 THEN FALSE
    ELSE IF StartsWithDash(command) THEN FALSE
    ELSE TRUE

\* Azure_is_safe_command without the lower-casing of the command.
Azure_is_safe_command_case_sensitive(command) ==
    IF ScanPatterns(Azure_dangerous_patterns, command) # 0 THEN FALSE
    ELSE IF StartsWithDash(command) THEN FALSE
    ELSE IF \/ Contains(command, SpDeleteSp)
            \/ EndsWith(command, SpDelete) THEN FALSE
    ELSE TRUE

Azure_is_safe_command(command) ==
    LET command_lower == Lower(command) IN
    IF ScanPatterns(Azure_dangerous_patterns, command_lower) # 0 THEN FALSE
    ELSE IF StartsWithDash(command) THEN FALSE
    ELSE IF \/ Contains(command_lower, SpDeleteSp)
            \/ EndsWith(command_lower, SpDelete) THEN FALSE
    ELSE TRUE

GCP_is_safe_command(command) ==
    LET command_lower == Lower(command) IN
    IF GCP_ScanPatterns(command_lower) # 0 THEN FALSE
    ELSE IF StartsWithDash(command) THEN FALSE
    ELSE IF \E m \in 1..Len(GCP_suspicious_chars) :
                Contains(command, GCP_suspicious_chars[m]) THEN FALSE
    ELSE TRUE

(***************************************************************************)
(* Providers and the gate each provider's tool runs.                       *)
(***************************************************************************)
Providers == {"AWS", "Azure", "GCP", "GCS", "BigQuery"}

\* is_safe_command with a rule table of its own for gsutil.
is_safe_command_gsutil_own_table(provider, command) ==
    CASE provider = "AWS"   -> AWS_is_safe_command(command)
      [] provider = "Azure" -> Azure_is_safe_command(command)
      [] provider = "GCS"   -> AWS_is_safe_command(command)
      [] OTHER              -> GCP_is_safe_command(command)

\* self._is_safe_command of the class that serves the provider: gsutil_cli
\* and bq_cli are methods of GCPMCPServer.
is_safe_command(provider, command) ==
    CASE provider = "AWS"   -> AWS_is_safe_command(command)
      [] provider = "Azure" -> Azure_is_safe_command(command)
      [] OTHER              -> GCP_is_safe_command(command)

MsgNoCommand == <<"E", "r", "r", "o", "r", ":", " ", "N", "o", " ", "c", "o", "m", "m", "a", "n", "d", " ", "p", "r", "o", "v", "i", "d", "e", "d">>
MsgDangerous == <<"E", "r", "r", "o", "r", ":", " ", "C", "o", "m", "m", "a", "n", "d", " ", "c", "o", "n", "t", "a", "i", "n", "s", " ", "p", "o", "t", "e", "n", "t", "i", "a", "l", "l", "y", " ", "d", "a", "n", "g", "e", "r", "o", "u", "s", " ", "o", "p", "e", "r", "a", "t", "i", "o", "n", "s">>

\* Evaluate without the call of the gate.
Evaluate_ungated(provider, raw) ==
    LET command == Strip(raw) IN
    IF command = <<>>
    THEN [verdict |-> "Rejected", text |-> MsgNoCommand, consulted |-> FALSE,
          command |-> command]
    ELSE [verdict |-> "Allowed", text |-> <<>>, consulted |-> FALSE,
          command |-> command]

\* Evaluate without the test for an empty command.
Evaluate_no_empty_check(provider, raw) ==
    LET command == Strip(raw) IN
    IF ~ is_safe_command(provider, command)
    THEN [verdict |-> "Rejected", text |-> MsgDangerous, consulted |-> TRUE,
          command |-> command]
    ELSE [verdict |-> "Allowed", text |-> <<>>, consulted |-> TRUE,
          command |-> command]

\* Evaluate answering a rejected command with the other error text.
Evaluate_wrong_message(provider, raw) ==
    LET command == Strip(raw) IN
    IF command = <<>>
    THEN [verdict |-> "Rejected", text |-> MsgNoCommand, consulted |-> FALSE,
          command |-> command]
    ELSE IF ~ is_safe_command(provider, command)
    THEN [verdict |-> "Rejected", text |-> MsgNoCommand, consulted |-> TRUE,
          command |-> command]
    ELSE [verdict |-> "Allowed", text |-> <<>>, consulted |-> TRUE,
          command |-> command]

\* The head of every *_cli handler: strip the argument, answer an empty one,
\* then ask the gate.  consulted records whether _is_safe_command was called.
Evaluate(provider, raw) ==
    LET command == Strip(raw) IN
    IF command = <<>>
    THEN [verdict |-> "Rejected", text |-> MsgNoCommand, consulted |-> FALSE,
          command |-> command]
    ELSE IF ~ is_safe_command(provider, command)
    THEN [verdict |-> "Rejected", text |-> MsgDangerous, consulted |-> TRUE,
          command |-> command]
    ELSE [verdict |-> "Allowed", text |-> <<>>, consulted |-> TRUE,
          command |-> command]

(***************************************************************************)
(* shlex.split(full_command): POSIX word splitting, whitespace_split on,   *)
(* no comment characters.  The result is the token list, or the message of *)
(* the ValueError it raises.                                               *)
(***************************************************************************)
ShlexWhitespace == {" ", "\t", "\r", "\n"}
ShlexQuotes == {"'", "\""}
ShlexEscape == {"\\"}
ShlexEscapedQuotes == {"\""}

NoClosingQuotation == <<"N", "o", " ", "c", "l", "o", "s", "i", "n", "g", " ", "q", "u", "o", "t", "a", "t", "i", "o", "n">>
NoEscapedCharacter == <<"N", "o", " ", "e", "s", "c", "a", "p", "e", "d", " ", "c", "h", "a", "r", "a", "c", "t", "e", "r">>

\* The lexer between two characters: state is " " (between tokens), "a" (in
\* a word), a quote character or the escape character, as in the source;
\* token and quoted are those of the token being read, out the tokens read.
ShlexStart ==
    [state |-> " ", escapedstate |-> " ", token |-> <<>>, quoted |-> FALSE,
     out |-> <<>>]

\* The tokens read once the token being read has ended.
ShlexEmit(st) ==
    IF st.token # <<>> \/ st.quoted THEN Append(st.out, st.token) ELSE st.out

\* shlex.read_token on one character nextchar.
ShlexStep(st, nextchar) ==
    IF st.state = " " THEN
        IF nextchar \in ShlexWhitespace THEN st
        ELSE IF nextchar \in ShlexEscape
             THEN [st EXCEPT !.escapedstate = "a", !.state = nextchar]
        ELSE IF nextchar \in ShlexQuotes
             THEN [st EXCEPT !.state = nextchar]
        ELSE [st EXCEPT !.token = <<nextchar>>, !.state = "a"]
    ELSE IF st.state \in ShlexQuotes THEN
        IF nextchar = st.state
        THEN [st EXCEPT !.quoted = TRUE, !.state = "a"]
        ELSE IF nextchar \in ShlexEscape /\ st.state \in ShlexEscapedQuotes
             THEN [st EXCEPT !.quoted = TRUE, !.escapedstate = st.state,
                             !.state = nextchar]
        ELSE [st EXCEPT !.quoted = TRUE, !.token = Append(st.token, nextchar)]
    ELSE IF st.state \in ShlexEscape THEN
        IF /\ st.escapedstate \in ShlexQuotes
           /\ nextchar # st.state
           /\ nextchar # st.escapedstate
        THEN [st EXCEPT !.token = st.token \o <<st.state, nextchar>>,
                        !.state = st.escapedstate]
        ELSE [st EXCEPT !.token = Append(st.token, nextchar),
                        !.state = st.escapedstate]
    ELSE \* st.state = "a"
        IF nextchar \in ShlexWhitespace
        THEN [st EXCEPT !.out = ShlexEmit(st), !.token = <<>>,
                        !.quoted = FALSE, !.state = " "]
        ELSE IF nextchar \in ShlexQuotes
             THEN [st EXCEPT !.state = nextchar]
        ELSE IF nextchar \in ShlexEscape
             THEN [st EXCEPT !.escapedstate = "a", !.state = nextchar]
        ELSE [st EXCEPT !.token = Append(st.token, nextchar)]

\* shlex.read_token at the end of the input.
ShlexEnd(st) ==
    IF st.state \in ShlexQuotes
    THEN [ok |-> FALSE, tokens |-> <<>>, error |-> NoClosingQuotation]
    ELSE IF st.state \in ShlexEscape
    THEN [ok |-> FALSE, tokens |-> <<>>, error |-> NoEscapedCharacter]
    ELSE [ok |-> TRUE, tokens |-> ShlexEmit(st), error |-> <<>>]

\* The loop of read_token over the characters s[lo..hi], entered in st: the
\* first half of the characters, then the second.  A lexer whose state is
\* None has met the end of its input and reads nothing more.
RECURSIVE ShlexRun(_, _, _, _)
ShlexRun(s, lo, hi, st) ==
    IF lo > hi THEN st
    ELSE IF lo = hi THEN ShlexStep(st, s[lo])
    ELSE LET first == ShlexRun(s, lo, (lo + hi) \div 2, st)
         IN  IF first.state = "None" THEN first
             ELSE ShlexRun(s, ((lo + hi) \div 2) + 1, hi, first)

shlex_split(s) == ShlexEnd(ShlexRun(s, 1, Len(s), ShlexStart))

(***************************************************************************)
(* str(n) of an integer, as the f-strings format the timeout and the exit  *)
(* code.                                                                   *)
(***************************************************************************)
Digits == <<"0", "1", "2", "3", "4", "5", "6", "7", "8", "9">>

RECURSIVE StrNat(_)
StrNat(n) ==
    IF n < 10 THEN <<Digits[n + 1]>>
    ELSE Append(StrNat(n \div 10), Digits[(n % 10) + 1])

Str(n) == IF n < 0 THEN <<"-">> \o StrNat(0 - n) ELSE StrNat(n)

(***************************************************************************)
(* Tools, the provider each belongs to and the binary it runs.             *)
(***************************************************************************)
CliTools == {"aws_cli", "azure_cli", "gcloud_cli", "gsutil_cli", "bq_cli"}

\* handle_call_tool: the handler, hence the gate, that serves each tool name
ToolProvider(tool) ==
    CASE tool = "aws_cli"    -> "AWS"
      [] tool = "azure_cli"  -> "Azure"
      [] tool = "gcloud_cli" -> "GCP"
      [] tool = "gsutil_cli" -> "GCS"
      [] tool = "bq_cli"     -> "BigQuery"

\* full_command = f"<binary> {command}"
Binary(tool) ==
    CASE tool = "aws_cli"    -> <<"a", "w", "s">>
      [] tool = "azure_cli"  -> <<"a", "z">>
      [] tool = "gcloud_cli" -> <<"g", "c", "l", "o", "u", "d">>
      [] tool = "gsutil_cli" -> <<"g", "s", "u", "t", "i", "l">>
      [] tool = "bq_cli"     -> <<"b", "q">>

Binaries == { Binary(tool) : tool \in CliTools }

\* arguments.get("timeout", 30)
DefaultTimeout == 30

MsgParse == <<"E", "r", "r", "o", "r", " ", "p", "a", "r", "s", "i", "n", "g", " ", "c", "o", "m", "m", "a", "n", "d", ":", " ">>
MsgTimedOut == <<"E", "r", "r", "o", "r", ":", " ", "C", "o", "m", "m", "a", "n", "d", " ", "t", "i", "m", "e", "d", " ", "o", "u", "t", " ", "a", "f", "t", "e", "r", " ">>
MsgSeconds == <<" ", "s", "e", "c", "o", "n", "d", "s">>
MsgExecuting == <<"E", "r", "r", "o", "r", " ", "e", "x", "e", "c", "u", "t", "i", "n", "g", " ", "c", "o", "m", "m", "a", "n", "d", ":", " ">>
MsgCommand == <<"C", "o", "m", "m", "a", "n", "d", ":", " ">>
MsgExitCode == <<"E", "x", "i", "t", " ", "C", "o", "d", "e", ":", " ">>
MsgOutput == <<"O", "u", "t", "p", "u", "t", ":", "\n">>
MsgError == <<"E", "r", "r", "o", "r", ":", "\n">>
MsgAllMfa == <<"A", "l", "l", " ", "u", "s", "e", "r", "s", " ", "h", "a", "v", "e", " ", "M", "F", "A", " ", "e", "n", "a", "b", "l", "e", "d", ".">>
MsgInternal == <<"I", "n", "t", "e", "r", "n", "a", "l", " ", "S", "e", "r", "v", "e", "r", " ", "E", "r", "r", "o", "r">>

(***************************************************************************)
(* bytes.decode("utf-8"): output bytes are integers 0..255.  The printable *)
(* ASCII bytes and the newline decode to their character; a byte of 128 or *)
(* more is never the start of a valid sequence in the outputs of the model *)
(* and raises UnicodeDecodeError.                                          *)
(***************************************************************************)
AsciiTable ==
    << " ", "!", "\"", "#", "$", "%", "&", "'",
       "(", ")", "*", "+", ",", "-", ".", "/",
       "0", "1", "2", "3", "4", "5", "6", "7",
       "8", "9", ":", ";", "<", "=", ">", "?",
       "@", "A", "B", "C", "D", "E", "F", "G",
       "H", "I", "J", "K", "L", "M", "N", "O",
       "P", "Q", "R", "S", "T", "U", "V", "W",
       "X", "Y", "Z", "[", "\\", "]", "^", "_",
       "backtick", "a", "b", "c", "d", "e", "f", "g",
       "h", "i", "j", "k", "l", "m", "n", "o",
       "p", "q", "r", "s", "t", "u", "v", "w",
       "x", "y", "z", "{", "|", "}", "~" >>

Utf8Valid(bytes) == \A k \in 1..Len(bytes) : bytes[k] < 128

AsciiChar(b) == IF b = 10 THEN "\n" ELSE AsciiTable[b - 31]

Utf8Decode(bytes) == [k \in 1..Len(bytes) |-> AsciiChar(bytes[k])]

MsgDecode == <<"'", "u", "t", "f", "-", "8", "'", " ", "c", "o", "d", "e", "c", " ", "c", "a", "n", "'", "t", " ", "d", "e", "c", "o", "d", "e", " ", "b", "y", "t", "e", " ", "0", "x", "f", "f", " ", "i", "n", " ", "p", "o", "s", "i", "t", "i", "o", "n", " ", "0", ":", " ", "i", "n", "v", "a", "l", "i", "d", " ", "s", "t", "a", "r", "t", " ", "b", "y", "t", "e">>

\* The OSError messages create_subprocess_exec can raise.
ENOENT == <<"[", "E", "r", "r", "n", "o", " ", "2", "]", " ", "N", "o", " ", "s", "u", "c", "h", " ", "f", "i", "l", "e", " ", "o", "r", " ", "d", "i", "r", "e", "c", "t", "o", "r", "y">>
EACCES == <<"[", "E", "r", "r", "n", "o", " ", "1", "3", "]", " ", "P", "e", "r", "m", "i", "s", "s", "i", "o", "n", " ", "d", "e", "n", "i", "e", "d">>
OSErrors == {ENOENT, EACCES}

(***************************************************************************)
(* Inputs.                                                                 *)
(***************************************************************************)
\* Fragments that commands are assembled from.
Frags ==
    { <<" ">>,
      <<"\t">>,
      <<"-">>,
      <<";">>,
      <<"|">>,
      <<"&">>,
      <<">">>,
      <<"d", "e", "l", "e", "t", "e">>,
      <<"D", "e", "L", "e", "t", "e">>,
      <<"-", "-", "d", "r", "y", "-", "r", "u", "n">>,
      <<"l", "i", "s", "t">>,
      <<"s", "3">> }

RECURSIVE Flatten(_)
Flatten(ss) == IF ss = <<>> THEN <<>> ELSE Head(ss) \o Flatten(Tail(ss))

\* Every concatenation of at most n fragments.
FragCommands(n) ==
    UNION { { Flatten(f) : f \in [1..m -> Frags] } : m \in 0..n }

CmdGroupDelete == <<"g", "r", "o", "u", "p", " ", "d", "e", "l", "e", "t", "e", " ", "-", "-", "n", "a", "m", "e", " ", "f", "o", "o">>
CmdDeleteDryRun == <<"c", "o", "m", "p", "u", "t", "e", " ", "i", "n", "s", "t", "a", "n", "c", "e", "s", " ", "d", "e", "l", "e", "t", "e", " ", "f", "o", "o", " ", "-", "-", "d", "r", "y", "-", "r", "u", "n">>
CmdListDryRun == <<"c", "o", "m", "p", "u", "t", "e", " ", "i", "n", "s", "t", "a", "n", "c", "e", "s", " ", "l", "i", "s", "t", " ", "-", "-", "d", "r", "y", "-", "r", "u", "n">>
CmdDeleteFoo == <<"c", "o", "m", "p", "u", "t", "e", " ", "i", "n", "s", "t", "a", "n", "c", "e", "s", " ", "d", "e", "l", "e", "t", "e", " ", "f", "o", "o">>
CmdS3Ls == <<"s", "3", " ", "l", "s">>

\* The commands the documentation names.
NamedCommands ==
    {CmdGroupDelete, CmdDeleteDryRun, CmdListDryRun, CmdDeleteFoo, CmdS3Ls}

\* Commands with a command substitution or an escape in them.
CmdDollarParen == <<"s", "3", " ", "l", "s", " ", "$", "(", "i", "d", ")">>
CmdBacktick == <<"s", "3", " ", "l", "s", " ", "backtick", "i", "d", "backtick">>
CmdDollarBrace == <<"s", "3", " ", "l", "s", " ", "$", "{", "H", "O", "M", "E", "}">>
CmdBackslash == <<"s", "3", " ", "l", "s", " ", "a", "\\", "b">>

MarkerCommands == {CmdDollarParen, CmdBacktick, CmdDollarBrace, CmdBackslash}

GateCommands == FragCommands(MaxFrags) \cup NamedCommands \cup MarkerCommands

\* Longest command, in fragments of Frags, that the pipeline is called with.
PipeFrags == 2

CmdQuoted == <<"s", "3", " ", "l", "s", " ", "\"", "m", "y", " ", "b", "u", "c", "k", "e", "t", "\"">>
CmdUnclosed == <<"s", "3", " ", "l", "s", " ", "\"", "m", "y">>
CmdTrailingEscape == <<"s", "3", " ", "l", "s", " ", "m", "y", "\\">>
CmdApostrophe == <<"s", "3", " ", "l", "s", " ", "\"", "a", "'", "b", " ", "c", "\"">>
CmdInjected == <<"a", "w", "s", " ", "s", "3", " ", "l", "s", ";", " ", "i", "d">>

QuotingCommands == {CmdQuoted, CmdUnclosed, CmdTrailingEscape, CmdApostrophe}

PipeCommands ==
    FragCommands(PipeFrags) \cup NamedCommands \cup QuotingCommands
        \cup {CmdInjected}

\* The timeout argument of a call: absent, or an integer.
TimeoutValues == {-1, 0, 5}
TimeoutArgs ==
    {[given |-> FALSE, value |-> 0]}
        \cup {[given |-> TRUE, value |-> v] : v \in TimeoutValues}

\* What a child process can do: its exit code and the bytes it wrote.
ChildOutcomes ==
    { [returncode |-> 0, stdout |-> <<111, 107>>, stderr |-> <<>>],
      [returncode |-> 2, stdout |-> <<>>, stderr |-> <<117, 115, 97, 103, 101>>],
      [returncode |-> 0, stdout |-> <<255>>, stderr |-> <<>>] }

\* The user names "aws iam list-users" can report.
UserLists == {<<>>, << <<"a", "l", "i", "c", "e">> >>}

(***************************************************************************)
(* State.                                                                  *)
(***************************************************************************)
VARIABLES
    gate,   \* one evaluation of the gate: provider, raw command, verdict
    inv,    \* the request being served: its handler's locals, its child
            \* process and the response it returns
    pool    \* the *_cli calls in flight together on the event loop, each
            \* with its handler's locals and its child, as inv

vars == <<gate, inv, pool>>

Pending == [verdict |-> "Pending", text |-> <<>>, consulted |-> FALSE,
            command |-> <<>>]

GateIdle == [provider |-> "AWS", raw |-> <<>>, result |-> Pending]

\* pc: idle, spawning (in create_subprocess_exec), running (in wait_for),
\*     help_spawning / help_running (the same two places of a help tool),
\*     http_run / http_list / http_mfa (in check_output), done (returned).
\* proc: none, running, exited.  kind names the branch that built text.
Idle ==
    [pc |-> "idle", tool |-> "none", raw |-> <<>>, timeout |-> 0,
     verdict |-> "Pending", consulted |-> FALSE,
     full_command |-> <<>>, argv |-> <<>>, shell |-> FALSE,
     proc |-> "none", returncode |-> 0, stdout |-> <<>>, stderr |-> <<>>,
     todo |-> <<>>, found |-> <<>>,
     kind |-> "none", status |-> 0, text |-> <<>>]

\* Most *_cli calls in flight together.
NumInv == 2

Invs == 1..NumInv

PoolIdle == [i \in Invs |-> Idle]

(***************************************************************************)
(* The gate as a pure function: draw a provider and a command, evaluate.   *)
(***************************************************************************)
InitGate ==
    /\ gate \in [provider : Providers, raw : GateCommands, result : {Pending}]
    /\ inv = Idle
    /\ pool = PoolIdle

GateEvaluate ==
    /\ gate.result = Pending
    /\ gate' = [gate EXCEPT !.result = Evaluate(gate.provider, gate.raw)]
    /\ UNCHANGED <<inv, pool>>

NextGate == GateEvaluate

SpecGate == InitGate /\ [][NextGate]_vars

(***************************************************************************)
(* The stdio tool handlers.                                                *)
(***************************************************************************)
\* full_command.split(): the maximal runs of characters that are not
\* whitespace, in order.
WordStarts(s) ==
    { k \in 1..Len(s) :
          s[k] \notin ShlexWhitespace
              /\ (k = 1 \/ s[k - 1] \in ShlexWhitespace) }

WordEnd(s, k) ==
    CHOOSE e \in k..Len(s) :
        /\ \A j \in k..e : s[j] \notin ShlexWhitespace
        /\ (e = Len(s) \/ s[e + 1] \in ShlexWhitespace)

NthStart(s, i) ==
    CHOOSE k \in WordStarts(s) :
        Cardinality({ j \in WordStarts(s) : j <= k }) = i

StrSplit(s) ==
    [i \in 1..Cardinality(WordStarts(s)) |->
         SubSeq(s, NthStart(s, i), WordEnd(s, NthStart(s, i)))]

\* execute_command spawning whatever the tokenizer left, error or not.
execute_command_no_parse_check(tool, raw, targ) ==
    LET g == Evaluate(ToolProvider(tool), raw)
        timeout == IF targ.given THEN targ.value ELSE DefaultTimeout
        called == [Idle EXCEPT !.tool = tool, !.raw = raw,
                               !.timeout = timeout,
                               !.verdict = g.verdict,
                               !.consulted = g.consulted]
        full_command == Binary(tool) \o <<" ">> \o g.command
        cmd_parts == shlex_split(full_command)
    IN  IF g.verdict = "Rejected"
        THEN [called EXCEPT !.pc = "done",
                            !.kind = IF g.consulted THEN "PolicyRejected"
                                     ELSE "EmptyCommand",
                            !.text = g.text]
        ELSE [called EXCEPT !.pc = "spawning",
                            !.full_command = full_command,
                            !.argv = cmd_parts.tokens]

\* execute_command with full_command.split() for shlex.split(full_command).
execute_command_str_split(tool, raw, targ) ==
    LET g == Evaluate(ToolProvider(tool), raw)
        timeout == IF targ.given THEN targ.value ELSE DefaultTimeout
        called == [Idle EXCEPT !.tool = tool, !.raw = raw,
                               !.timeout = timeout,
                               !.verdict = g.verdict,
                               !.consulted = g.consulted]
        full_command == Binary(tool) \o <<" ">> \o g.command
        cmd_parts == [ok |-> TRUE, tokens |-> StrSplit(full_command),
                      error |-> <<>>]
    IN  IF g.verdict = "Rejected"
        THEN [called EXCEPT !.pc = "done",
                            !.kind = IF g.consulted THEN "PolicyRejected"
                                     ELSE "EmptyCommand",
                            !.text = g.text]
        ELSE IF ~ cmd_parts.ok
        THEN [called EXCEPT !.pc = "done", !.kind = "ParseError",
                            !.full_command = full_command,
                            !.text = MsgParse \o cmd_parts.error]
        ELSE [called EXCEPT !.pc = "spawning",
                            !.full_command = full_command,
                            !.argv = cmd_parts.tokens]

\* _execute_aws_command, _execute_azure_command, _execute_gcloud_command,
\* _execute_gsutil_command, _execute_bq_command (the last three with
\* _execute_command), from the call to the first suspension: read the
\* arguments, answer an empty or a rejected command, tokenize.
execute_command(tool, raw, targ) ==
    LET g == Evaluate(ToolProvider(tool), raw)
        timeout == IF targ.given THEN targ.value ELSE DefaultTimeout
        called == [Idle EXCEPT !.tool = tool, !.raw = raw,
                               !.timeout = timeout,
                               !.verdict = g.verdict,
                               !.consulted = g.consulted]
        full_command == Binary(tool) \o <<" ">> \o g.command
        cmd_parts == shlex_split(full_command)
    IN  IF g.verdict = "Rejected"
        THEN [called EXCEPT !.pc = "done",
                            !.kind = IF g.consulted THEN "PolicyRejected"
                                     ELSE "EmptyCommand",
                            !.text = g.text]
        ELSE IF ~ cmd_parts.ok
        THEN [called EXCEPT !.pc = "done", !.kind = "ParseError",
                            !.full_command = full_command,
                            !.text = MsgParse \o cmd_parts.error]
        ELSE [called EXCEPT !.pc = "spawning",
                            !.full_command = full_command,
                            !.argv = cmd_parts.tokens]

CallTool ==
    /\ inv.pc = "idle"
    /\ \E tool \in CliTools, raw \in PipeCommands, targ \in TimeoutArgs :
           inv' = execute_command(tool, raw, targ)
    /\ UNCHANGED <<gate, pool>>

\* asyncio.create_subprocess_exec(*cmd_parts, ...) returns a process.
spawn_ok(r) == [r EXCEPT !.pc = "running", !.proc = "running"]

SpawnOk ==
    /\ inv.pc = "spawning"
    /\ inv' = spawn_ok(inv)
    /\ UNCHANGED <<gate, pool>>

\* spawn_fail answering without the message of the exception.
spawn_fail_no_message(r, e) ==
    [r EXCEPT !.pc = "done", !.kind = "SpawnFailed", !.text = MsgExecuting]

\* asyncio.create_subprocess_exec raises e; except Exception answers.
spawn_fail(r, e) ==
    [r EXCEPT !.pc = "done", !.kind = "SpawnFailed",
              !.text = MsgExecuting \o e]

SpawnFail ==
    /\ inv.pc = "spawning"
    /\ \E e \in OSErrors : inv' = spawn_fail(inv, e)
    /\ UNCHANGED <<gate, pool>>

\* The child process ends by itself, whoever is or is not waiting for it.
child_exit(r, o) ==
    [r EXCEPT !.proc = "exited", !.returncode = o.returncode,
              !.stdout = o.stdout, !.stderr = o.stderr]

ChildExit ==
    /\ inv.proc = "running"
    /\ \E o \in ChildOutcomes : inv' = child_exit(inv, o)
    /\ UNCHANGED <<gate, pool>>

\* The response built after communicate() returned.
response_text(r) ==
    MsgCommand \o r.full_command \o <<"\n">>
        \o MsgExitCode \o Str(r.returncode) \o <<"\n", "\n">>
        \o (IF r.stdout # <<>>
            THEN MsgOutput \o Utf8Decode(r.stdout) \o <<"\n">> ELSE <<>>)
        \o (IF r.stderr # <<>>
            THEN MsgError \o Utf8Decode(r.stderr) \o <<"\n">> ELSE <<>>)

\* The handler after communicate() returned: the bytes are decoded as
\* strict UTF-8 inside the try block, so bytes that are not UTF-8 end in
\* the except Exception branch.
complete(r) ==
    IF Utf8Valid(r.stdout) /\ Utf8Valid(r.stderr)
    THEN [r EXCEPT !.pc = "done", !.kind = "Completed",
                   !.text = response_text(r)]
    ELSE [r EXCEPT !.pc = "done", !.kind = "ExecError",
                   !.text = MsgExecuting \o MsgDecode]

\* wait_for(process.communicate(), timeout) returns the output: a wait with
\* a timeout of 0 or less is cancelled before communicate() can finish.
CanComplete(r) == r.pc = "running" /\ r.proc = "exited" /\ r.timeout > 0

Complete ==
    /\ CanComplete(inv)
    /\ inv' = complete(inv)
    /\ UNCHANGED <<gate, pool>>

\* on_timeout reporting the default instead of the timeout that was applied.
on_timeout_default_value(r) ==
    [r EXCEPT !.pc = "done", !.kind = "TimedOut",
              !.text = MsgTimedOut \o Str(DefaultTimeout) \o MsgSeconds]

\* on_timeout starting the command once more instead of answering.
on_timeout_retry(r) == [r EXCEPT !.pc = "spawning"]

\* wait_for raises asyncio.TimeoutError: communicate() is cancelled and the
\* handler answers; nothing is done to the process.
on_timeout(r) ==
    [r EXCEPT !.pc = "done", !.kind = "TimedOut",
              !.text = MsgTimedOut \o Str(r.timeout) \o MsgSeconds]

Timeout ==
    /\ inv.pc = "running"
    /\ inv' = on_timeout(inv)
    /\ UNCHANGED <<gate, pool>>

(***************************************************************************)
(* The help tools: aws_help, azure_help, gcloud_help.                      *)
(***************************************************************************)
HelpTools == {"aws_help", "azure_help", "gcloud_help"}

HelpProvider(tool) ==
    CASE tool = "aws_help"    -> "AWS"
      [] tool = "azure_help"  -> "Azure"
      [] tool = "gcloud_help" -> "GCP"

HelpBinary(tool) ==
    CASE tool = "aws_help"    -> <<"a", "w", "s">>
      [] tool = "azure_help"  -> <<"a", "z">>
      [] tool = "gcloud_help" -> <<"g", "c", "l", "o", "u", "d">>

\* The last argument of the help call: aws has a help subcommand, az and
\* gcloud a --help flag.
HelpWord(tool) ==
    IF tool = "aws_help" THEN <<"h", "e", "l", "p">>
    ELSE <<"-", "-", "h", "e", "l", "p">>

\* timeout= of the wait_for of the help call
HelpTimeoutOf(tool) == IF tool = "gcloud_help" THEN 15 ELSE 10

\* The length the help text is cut to.
HelpLimit(tool) == IF tool = "gcloud_help" THEN 3000 ELSE 2000

MsgHelpError == <<"E", "r", "r", "o", "r", " ", "g", "e", "t", "t", "i", "n", "g", " ", "h", "e", "l", "p", ":", " ">>
MsgHelpTimedOut == <<"E", "r", "r", "o", "r", ":", " ", "H", "e", "l", "p", " ", "c", "o", "m", "m", "a", "n", "d", " ", "t", "i", "m", "e", "d", " ", "o", "u", "t">>
MsgTruncated == <<"\n", ".", ".", ".", " ", "(", "t", "r", "u", "n", "c", "a", "t", "e", "d", ")">>

\* The "service" and "command" arguments a caller passes: none, a service
\* name, a flag, a denylisted word.
HelpArgs ==
    { <<>>, <<"s", "3">>, <<"-", "-", "d", "e", "b", "u", "g">>,
      <<"d", "e", "l", "e", "t", "e">> }

\* _get_aws_help, _get_azure_help, _get_gcloud_help up to the spawn: the
\* arguments go into the list cmd as they are; only gcloud_help reads
\* "command", and uses it only when "service" is not empty.
get_help(tool, service, command) ==
    LET cmd == IF service # <<>> /\ command # <<>> /\ tool = "gcloud_help"
               THEN <<HelpBinary(tool), service, command, HelpWord(tool)>>
               ELSE IF service # <<>>
               THEN <<HelpBinary(tool), service, HelpWord(tool)>>
               ELSE <<HelpBinary(tool), HelpWord(tool)>>
    IN  [Idle EXCEPT !.pc = "help_spawning", !.tool = tool, !.raw = service,
                     !.timeout = HelpTimeoutOf(tool), !.argv = cmd]

CallHelp ==
    /\ inv.pc = "idle"
    /\ \E tool \in HelpTools, service \in HelpArgs, command \in HelpArgs :
           /\ (tool # "gcloud_help" => command = <<>>)
           /\ inv' = get_help(tool, service, command)
    /\ UNCHANGED <<gate, pool>>

HelpSpawnOk ==
    /\ inv.pc = "help_spawning"
    /\ inv' = [inv EXCEPT !.pc = "help_running", !.proc = "running"]
    /\ UNCHANGED <<gate, pool>>

HelpSpawnFail ==
    /\ inv.pc = "help_spawning"
    /\ \E e \in OSErrors :
           inv' = [inv EXCEPT !.pc = "done", !.kind = "HelpFailed",
                              !.text = MsgHelpError \o e]
    /\ UNCHANGED <<gate, pool>>

\* help_text[:limit] + "\n... (truncated)" when the text is longer
Truncate(text, limit) ==
    IF Len(text) > limit THEN SubSeq(text, 1, limit) \o MsgTruncated
    ELSE text

\* The answer after communicate() returned: stdout on exit code 0, stderr
\* otherwise, each decoded as strict UTF-8.
help_response(r) ==
    IF r.returncode = 0
    THEN IF Utf8Valid(r.stdout)
         THEN [r EXCEPT !.pc = "done", !.kind = "Help",
                        !.text = Truncate(Utf8Decode(r.stdout),
                                          HelpLimit(r.tool))]
         ELSE [r EXCEPT !.pc = "done", !.kind = "HelpFailed",
                        !.text = MsgHelpError \o MsgDecode]
    ELSE IF Utf8Valid(r.stderr)
         THEN [r EXCEPT !.pc = "done", !.kind = "HelpError",
                        !.text = MsgHelpError \o Utf8Decode(r.stderr)]
         ELSE [r EXCEPT !.pc = "done", !.kind = "HelpFailed",
                        !.text = MsgHelpError \o MsgDecode]

HelpReturn ==
    /\ inv.pc = "help_running"
    /\ inv.proc = "exited"
    /\ inv' = help_response(inv)
    /\ UNCHANGED <<gate, pool>>

HelpTimeout ==
    /\ inv.pc = "help_running"
    /\ inv' = [inv EXCEPT !.pc = "done", !.kind = "HelpTimedOut",
                          !.text = MsgHelpTimedOut]
    /\ UNCHANGED <<gate, pool>>

(***************************************************************************)
(* The HTTP routes.                                                        *)
(***************************************************************************)
BinSh == <<"/", "b", "i", "n", "/", "s", "h">>
DashC == <<"-", "c">>
CmdListUsers == <<"a", "w", "s", " ", "i", "a", "m", " ", "l", "i", "s", "t", "-", "u", "s", "e", "r", "s">>
CmdListMfa == <<"a", "w", "s", " ", "i", "a", "m", " ", "l", "i", "s", "t", "-", "m", "f", "a", "-", "d", "e", "v", "i", "c", "e", "s", " ", "-", "-", "u", "s", "e", "r", "-", "n", "a", "m", "e", " ">>

\* subprocess.check_output(command, shell=True): /bin/sh -c command
check_output_shell(r, pc, command) ==
    [r EXCEPT !.pc = pc, !.full_command = command,
              !.argv = <<BinSh, DashC, command>>, !.shell = TRUE,
              !.proc = "running", !.returncode = 0,
              !.stdout = <<>>, !.stderr = <<>>]

\* jsonify({"text": ...}) of a byte string decoded as UTF-8
text_response(r, status, bytes) ==
    IF Utf8Valid(bytes)
    THEN [r EXCEPT !.pc = "done", !.kind = "Http", !.status = status,
                   !.text = Utf8Decode(bytes)]
    ELSE [r EXCEPT !.pc = "done", !.kind = "Unhandled", !.status = 500,
                   !.text = MsgInternal]

\* POST /run-aws: the posted command goes to the shell as it is.
RunAws ==
    /\ inv.pc = "idle"
    /\ \E raw \in PipeCommands :
           inv' = check_output_shell(
                      [Idle EXCEPT !.tool = "run-aws", !.raw = raw],
                      "http_run", raw)
    /\ UNCHANGED <<gate, pool>>

\* run_aws after check_output: stderr is merged into the output.
RunAwsReturn ==
    /\ inv.pc = "http_run"
    /\ inv.proc = "exited"
    /\ inv' = text_response(inv, IF inv.returncode = 0 THEN 200 ELSE 500,
                            inv.stdout \o inv.stderr)
    /\ UNCHANGED <<gate, pool>>

\* GET /iam/users-without-mfa: list the users through the shell.
UsersWithoutMfa ==
    /\ inv.pc = "idle"
    /\ inv' = check_output_shell(
                  [Idle EXCEPT !.tool = "users-without-mfa"],
                  "http_list", CmdListUsers)
    /\ UNCHANGED <<gate, pool>>

RECURSIVE JoinLines(_)
JoinLines(names) ==
    IF names = <<>> THEN <<>>
    ELSE IF Len(names) = 1 THEN names[1]
    ELSE names[1] \o <<"\n">> \o JoinLines(Tail(names))

\* The end of users_without_mfa, or its next check_output in the loop.
mfa_loop(r, todo, found) ==
    IF todo = <<>>
    THEN [r EXCEPT !.pc = "done", !.kind = "Http", !.status = 200,
                   !.todo = todo, !.found = found,
                   !.text = IF found = <<>> THEN MsgAllMfa
                            ELSE JoinLines(found)]
    ELSE [check_output_shell(r, "http_mfa", CmdListMfa \o Head(todo))
              EXCEPT !.todo = todo, !.found = found]

\* users_without_mfa after "aws iam list-users": the parsed user names.
UsersListed ==
    /\ inv.pc = "http_list"
    /\ inv.proc = "exited"
    /\ IF inv.returncode # 0
       THEN inv' = text_response(inv, 500, inv.stdout)
       ELSE \E users \in UserLists : inv' = mfa_loop(inv, users, <<>>)
    /\ UNCHANGED <<gate, pool>>

\* users_without_mfa after "aws iam list-mfa-devices" of one user.
MfaListed ==
    /\ inv.pc = "http_mfa"
    /\ inv.proc = "exited"
    /\ IF inv.returncode # 0
       THEN inv' = text_response(inv, 500, inv.stdout)
       ELSE \E has_mfa \in BOOLEAN :
                inv' = mfa_loop(inv, Tail(inv.todo),
                                IF has_mfa THEN inv.found
                                ELSE Append(inv.found, Head(inv.todo)))
    /\ UNCHANGED <<gate, pool>>

\* The response is sent and the next request is taken; the record of the
\* finished request, its child included, leaves the state.
NextRequest ==
    /\ inv.pc = "done"
    /\ inv' = Idle
    /\ UNCHANGED <<gate, pool>>

Init ==
    /\ gate = GateIdle
    /\ inv = Idle
    /\ pool = PoolIdle

Next ==
    \/ CallTool
    \/ SpawnOk
    \/ SpawnFail
    \/ ChildExit
    \/ Complete
    \/ Timeout
    \/ CallHelp
    \/ HelpSpawnOk
    \/ HelpSpawnFail
    \/ HelpReturn
    \/ HelpTimeout
    \/ RunAws
    \/ RunAwsReturn
    \/ UsersWithoutMfa
    \/ UsersListed
    \/ MfaListed
    \/ NextRequest

Spec == Init /\ [][Next]_vars

(***************************************************************************)
(* Several *_cli calls in flight.  The event loop runs one handler at a    *)
(* time and switches at an await: at create_subprocess_exec and at         *)
(* wait_for.  A handler works on its arguments and its locals (command,    *)
(* timeout, full_command, cmd_parts, process, stdout, stderr); the server  *)
(* objects hold nothing but self.server, assigned once in __init__.        *)
(***************************************************************************)
ConcTools == {"aws_cli", "gcloud_cli"}
ConcCommands == {CmdS3Ls, CmdDeleteFoo, CmdUnclosed}
ConcTimeouts == {[given |-> FALSE, value |-> 0], [given |-> TRUE, value |-> 0]}
ConcOutcomes ==
    { [returncode |-> 0, stdout |-> <<111, 107>>, stderr |-> <<>>],
      [returncode |-> 2, stdout |-> <<>>, stderr |-> <<117, 115, 97, 103, 101>>] }

ConcCall(i) ==
    /\ pool[i].pc = "idle"
    /\ \E tool \in ConcTools, raw \in ConcCommands, targ \in ConcTimeouts :
           pool' = [pool EXCEPT ![i] = execute_command(tool, raw, targ)]
    /\ UNCHANGED <<gate, inv>>

ConcSpawnOk(i) ==
    /\ pool[i].pc = "spawning"
    /\ pool' = [pool EXCEPT ![i] = spawn_ok(pool[i])]
    /\ UNCHANGED <<gate, inv>>

ConcSpawnFail(i) ==
    /\ pool[i].pc = "spawning"
    /\ \E e \in OSErrors : pool' = [pool EXCEPT ![i] = spawn_fail(pool[i], e)]
    /\ UNCHANGED <<gate, inv>>

ConcChildExit(i) ==
    /\ pool[i].proc = "running"
    /\ \E o \in ConcOutcomes :
           pool' = [pool EXCEPT ![i] = child_exit(pool[i], o)]
    /\ UNCHANGED <<gate, inv>>

\* ConcComplete with the process kept in one attribute of the server
\* object: the handler reads the output of whichever child has ended.
ConcComplete_shared_process(i) ==
    /\ CanComplete(pool[i])
    /\ \E j \in Invs :
           /\ pool[j].proc = "exited"
           /\ pool' = [pool EXCEPT ![i] =
                  [complete([pool[i] EXCEPT
                                 !.returncode = pool[j].returncode,
                                 !.stdout = pool[j].stdout,
                                 !.stderr = pool[j].stderr])
                       EXCEPT !.returncode = pool[i].returncode,
                              !.stdout = pool[i].stdout,
                              !.stderr = pool[i].stderr]]
    /\ UNCHANGED <<gate, inv>>

\* stdout, stderr = await wait_for(process.communicate(), ...): process is
\* the local of this handler.
ConcComplete(i) ==
    /\ CanComplete(pool[i])
    /\ pool' = [pool EXCEPT ![i] = complete(pool[i])]
    /\ UNCHANGED <<gate, inv>>

ConcTimeout(i) ==
    /\ pool[i].pc = "running"
    /\ pool' = [pool EXCEPT ![i] = on_timeout(pool[i])]
    /\ UNCHANGED <<gate, inv>>

NextConc ==
    \E i \in Invs :
        \/ ConcCall(i)
        \/ ConcSpawnOk(i)
        \/ ConcSpawnFail(i)
        \/ ConcChildExit(i)
        \/ ConcComplete(i)
        \/ ConcTimeout(i)

SpecConc == Init /\ [][NextConc]_vars

(***************************************************************************)
(* Properties.                                                             *)
(***************************************************************************)
Evaluated == gate.result # Pending

\* The command is empty or holds only characters that strip() removes.
Blank(raw) == \A k \in 1..Len(raw) : raw[k] \in StripChars

\* The rule table of the provider's gate.
ProviderPatterns(provider) ==
    CASE provider = "AWS"   -> AWS_dangerous_patterns
      [] provider = "Azure" -> Azure_dangerous_patterns
      [] OTHER              -> GCP_dangerous_patterns

\* The patterns of the provider's table that occur in the command.
MatchingPatterns(provider, raw) ==
    { k \in 1..Len(ProviderPatterns(provider)) :
          Contains(Lower(Strip(raw)), ProviderPatterns(provider)[k]) }

\* The first pattern, in list order, that occurs in the command (0: none).
FirstMatch(provider, raw) ==
    IF MatchingPatterns(provider, raw) = {} THEN 0
    ELSE CHOOSE k \in MatchingPatterns(provider, raw) :
             \A m \in MatchingPatterns(provider, raw) : k <= m

\* C1: a *_cli call gets as far as a token list or a child process only if
\* its command is not empty and the gate of its provider accepts it.
C1_SpawnOnlyIfAllowed ==
    (inv.tool \in CliTools /\ (inv.argv # <<>> \/ inv.proc # "none"))
        => /\ inv.verdict = "Allowed"
           /\ Strip(inv.raw) # <<>>
           /\ is_safe_command(ToolProvider(inv.tool), Strip(inv.raw))

C1_Witness ==
    /\ inv.tool = "gcloud_cli"
    /\ inv.verdict = "Allowed"
    /\ inv.proc = "running"
    /\ inv.argv # <<>>

\* C2: every child process, of whatever entry point, is started without a
\* shell, from a token list whose first token is the provider binary.
C2_NoShellSpawn ==
    inv.proc # "none"
        => /\ ~ inv.shell
           /\ inv.argv # <<>>
           /\ Head(inv.argv) \in Binaries

\* The shell metacharacters the claim C3 lists.
ShellMeta == {<<";">>, <<"|">>, <<"&", "&">>, <<">">>}

HasShellMeta(raw) == \E m \in ShellMeta : Contains(raw, m)

\* C3: under every provider a command that holds ; | && or > anywhere is
\* Rejected.
C3_MetacharRejected ==
    (Evaluated /\ HasShellMeta(gate.raw)) => gate.result.verdict = "Rejected"

C3_Witness ==
    /\ Evaluated
    /\ gate.provider = "GCS"
    /\ gate.raw = <<"s", "3", ">", "l", "i", "s", "t">>
    /\ gate.result.verdict = "Rejected"

\* C4: a *_cli call with an empty or whitespace-only command is answered
\* "Error: No command provided" without the gate having been asked and
\* without a token list or a child process.
C4_EmptyRejectedFirst ==
    (inv.tool \in CliTools /\ Blank(inv.raw))
        => /\ inv.pc = "done"
           /\ inv.kind = "EmptyCommand"
           /\ inv.verdict = "Rejected"
           /\ inv.text = MsgNoCommand
           /\ ~ inv.consulted
           /\ inv.argv = <<>>
           /\ inv.proc = "none"

C4_Witness ==
    /\ inv.tool = "azure_cli"
    /\ inv.raw = <<" ", "\t">>
    /\ inv.pc = "done"
    /\ inv.text = MsgNoCommand

\* C5: under Azure every command that holds "delete" in any letter case is
\* Rejected, "group delete --name foo" among them.
C5_AzureDeleteRejected ==
    (Evaluated /\ gate.provider = "Azure"
        /\ Contains(Lower(gate.raw), DeleteWord))
        => gate.result.verdict = "Rejected"

C5_Witness ==
    /\ Evaluated
    /\ gate.provider = "Azure"
    /\ gate.raw = <<"D", "e", "L", "e", "t", "e", "-", "-", "d", "r", "y", "-", "r", "u", "n">>
    /\ gate.result.verdict = "Rejected"

\* What C6 requires a command to be free of: shell metacharacters,
\* privilege-escalation tokens and command-substitution markers.
C6_Forbidden ==
    { <<"&", "&">>, <<"|", "|">>, <<";">>, <<"|">>, <<">">>, <<"<">>,
      <<"s", "u", "d", "o">>, <<"s", "u">>, <<"c", "h", "m", "o", "d">>,
      <<"c", "h", "o", "w", "n">>,
      <<"$", "(">>, <<"backtick">>, <<"$", "{">>, <<"\\">> }

\* C6: under GCP a command that holds "delete" and one of the exception
\* markers, does not start with a dash and holds nothing of C6_Forbidden is
\* Allowed.
C6_GcpDeleteException ==
    (/\ Evaluated
     /\ gate.provider = "GCP"
     /\ Contains(Lower(gate.raw), DeleteWord)
     /\ \E m \in 1..Len(GCP_safe_delete) :
            Contains(Lower(gate.raw), GCP_safe_delete[m])
     /\ ~ StartsWith(Strip(gate.raw), Dash)
     /\ \A f \in C6_Forbidden : ~ Contains(Lower(gate.raw), f))
        => gate.result.verdict = "Allowed"

\* C7: under GCP "compute instances list --dry-run" is Allowed and
\* "compute instances delete foo" is Rejected.
C7_GcpExamples ==
    (Evaluated /\ gate.provider = "GCP")
        => /\ gate.raw = CmdListDryRun => gate.result.verdict = "Allowed"
           /\ gate.raw = CmdDeleteFoo => gate.result.verdict = "Rejected"

C7_Witness ==
    /\ Evaluated
    /\ gate.provider = "GCP"
    /\ gate.raw = CmdListDryRun
    /\ gate.result.verdict = "Allowed"

\* C8: under every provider a command whose first character after trimming
\* is "-" is Rejected, whether or not a pattern of the table occurs in it.
C8_DashRejected ==
    (Evaluated /\ StartsWith(Strip(gate.raw), Dash))
        => gate.result.verdict = "Rejected"

C8_Witness ==
    /\ Evaluated
    /\ gate.provider = "AWS"
    /\ gate.raw = <<" ", "-", "s", "3">>
    /\ MatchingPatterns("AWS", gate.raw) = {}
    /\ gate.result.verdict = "Rejected"

C10_NoLeakAfterTimeout ==
    (inv.pc = "done" /\ inv.kind = "TimedOut") => inv.proc # "running"

\* The text holds the decimal number n at its end, before " seconds".
EndsWithSeconds(text, n) == EndsWith(text, <<" ">> \o Str(n) \o MsgSeconds)

\* C11: a call whose wait ran out returns nothing but the message
\* "... timed out after <timeout> seconds" with the timeout that was applied:
\* no exit code and none of the output the child may have written.
C11_TimedOutResult ==
    (inv.tool \in CliTools /\ inv.kind = "TimedOut")
        => /\ inv.pc = "done"
           /\ inv.text = MsgTimedOut \o Str(inv.timeout) \o MsgSeconds
           /\ Contains(Lower(inv.text),
                       <<"c", "o", "m", "m", "a", "n", "d", " ", "t", "i", "m", "e", "d", " ", "o", "u", "t", " ", "a", "f", "t", "e", "r", " ">>)
           /\ EndsWithSeconds(inv.text, inv.timeout)
           /\ ~ Contains(inv.text, MsgExitCode)
           /\ ~ Contains(inv.text, MsgOutput)
           /\ (inv.stdout # <<>> /\ Utf8Valid(inv.stdout))
                  => ~ Contains(inv.text, Utf8Decode(inv.stdout))
           /\ (inv.stderr # <<>> /\ Utf8Valid(inv.stderr))
                  => ~ Contains(inv.text, Utf8Decode(inv.stderr))

\* A wait of 5 seconds ran out after the child had written its output.
C11_Witness ==
    /\ inv.tool = "aws_cli"
    /\ inv.pc = "done"
    /\ inv.kind = "TimedOut"
    /\ inv.timeout = 5
    /\ inv.proc = "exited"
    /\ inv.stdout = <<111, 107>>


\* The wait of a *_cli call returned the output of its child.
WaitReturned ==
    /\ inv.tool \in CliTools
    /\ inv.pc = "done"
    /\ inv.proc = "exited"
    /\ inv.kind # "TimedOut"

\* C12: a call whose child ended before the timeout returns a Completed
\* result that reports the exit code of the child as it is, zero or not,
\* with the text of its stdout and stderr.
C12_ExitCodeReported ==
    WaitReturned
        => /\ inv.kind = "Completed"
           /\ Contains(inv.text,
                       MsgExitCode \o Str(inv.returncode) \o <<"\n">>)
           /\ ~ StartsWith(inv.text, MsgExecuting)

\* The call got as far as create_subprocess_exec and ended without a child.
SpawnRefused ==
    /\ inv.tool \in CliTools
    /\ inv.pc = "done"
    /\ inv.argv # <<>>
    /\ inv.proc = "none"

\* C13: when the binary cannot be started the call returns a result that
\* carries the message of the OS error, without an exit code and not as a
\* timeout; no child exists, so none is waited for.
C13_SpawnFailureResult ==
    SpawnRefused
        => /\ inv.kind = "SpawnFailed"
           /\ \E e \in OSErrors : inv.text = MsgExecuting \o e
           /\ ~ Contains(inv.text, MsgExitCode)
           /\ ~ Contains(inv.text, MsgTimedOut)
           /\ inv.stdout = <<>> /\ inv.stderr = <<>>

C13_Witness ==
    /\ SpawnRefused
    /\ inv.tool = "bq_cli"
    /\ inv.raw = CmdS3Ls
    /\ EndsWith(inv.text, ENOENT)

\* C14: every request that has ended has ended in a response its handler
\* built; no exception left the handler.
C14_AlwaysStructuredResult ==
    inv.pc = "done" => (inv.kind # "Unhandled" /\ inv.kind # "none")

\* C15: a call whose child ended before the timeout with output that is
\* not UTF-8 still returns a Completed result with the exit code.
C15_LossyDecode ==
    (WaitReturned /\ ~ (Utf8Valid(inv.stdout) /\ Utf8Valid(inv.stderr)))
        => /\ inv.kind = "Completed"
           /\ Contains(inv.text, MsgExitCode \o Str(inv.returncode))


\* One step of a *_cli call, from the record r of the call to the record s.
C16_Step(r, s) ==
    /\ (r.pc = "idle" /\ s.tool \in CliTools)
           => s.pc \in {"spawning", "done"} /\ s.proc = "none"
    /\ (r.pc = "spawning" /\ r.tool \in CliTools)
           => \/ s.pc = "running" /\ s.proc = "running"
              \/ s.pc = "done" /\ s.proc = "none"
    /\ (r.pc = "running" /\ r.tool \in CliTools)
           => s.pc \in {"running", "done"}
    \* a call that has answered keeps its answer until the next request
    /\ (r.pc = "done" /\ r.tool \in CliTools)
           => \/ s = Idle
              \/ s.pc = "done" /\ s.kind = r.kind /\ s.text = r.text
    \* a child is started from Spawning only, by a call that has none yet
    /\ (s.tool \in CliTools /\ s.proc = "running" /\ r.proc # "running")
           => r.pc = "spawning" /\ r.proc = "none"
    \* the answer is built in the step that ends the call
    /\ (r.tool \in CliTools /\ r.pc # "done" /\ s.pc # "done")
           => s.kind = "none" /\ s.text = <<>>
    /\ (r.tool \in CliTools /\ s # Idle)
           => s.tool = r.tool /\ s.raw = r.raw /\ s.argv = r.argv

\* C16: a *_cli call goes from Idle to Spawning to Running to a terminal
\* state and skips or repeats none of them: it starts at most one child,
\* builds one answer, keeps it, and starts nothing again after a timeout, a
\* spawn failure or a non-zero exit.
C16_OneSpawnOneResult == [][C16_Step(inv, inv')]_vars

\* A call has answered the non-zero exit of its child.
C16_Witness ==
    /\ inv.tool = "gsutil_cli"
    /\ inv.pc = "done"
    /\ inv.kind = "Completed"
    /\ inv.returncode = 2


CountChar(s, c) == Cardinality({ k \in 1..Len(s) : s[k] = c })

\* One double quote that nothing closes.
UnclosedQuote(raw) ==
    /\ CountChar(raw, "\"") = 1
    /\ CountChar(raw, "'") = 0
    /\ CountChar(raw, "\\") = 0

\* One backslash with nothing behind it to escape.
DanglingEscape(raw) ==
    /\ CountChar(raw, "\"") = 0
    /\ CountChar(raw, "'") = 0
    /\ CountChar(raw, "\\") = 1
    /\ EndsWith(Strip(raw), <<"\\">>)

\* C17: a *_cli call whose command the gate accepted but whose quoting is
\* malformed (an unclosed quote, a dangling escape, or whatever else the
\* tokenizer refuses) returns "Error parsing command: <reason>" and gets
\* neither a token list nor a child process.
C17_ParseErrorResult ==
    (/\ inv.tool \in CliTools
     /\ inv.verdict = "Allowed"
     /\ \/ UnclosedQuote(inv.raw)
        \/ DanglingEscape(inv.raw)
        \/ ~ shlex_split(Binary(inv.tool) \o <<" ">> \o Strip(inv.raw)).ok)
        => /\ inv.pc = "done"
           /\ inv.kind = "ParseError"
           /\ inv.text \in { MsgParse \o NoClosingQuotation,
                             MsgParse \o NoEscapedCharacter }
           /\ UnclosedQuote(inv.raw)
                  => inv.text = MsgParse \o NoClosingQuotation
           /\ inv.argv = <<>>
           /\ inv.proc = "none"

C17_Witness ==
    /\ inv.tool = "gcloud_cli"
    /\ inv.raw = CmdUnclosed
    /\ inv.verdict = "Allowed"
    /\ inv.kind = "ParseError"
    /\ inv.proc = "none"

\* shlex.quote in its general form: the token between single quotes, every
\* single quote of the token written '"'"'.
QuoteToken(t) ==
    <<"'">>
        \o Flatten([k \in 1..Len(t) |->
                        IF t[k] = "'" THEN <<"'", "\"", "'", "\"", "'">>
                        ELSE <<t[k]>>])
        \o <<"'">>

\* shlex.join: the quoted tokens with one space between them.
RECURSIVE JoinQuoted(_)
JoinQuoted(tokens) ==
    IF tokens = <<>> THEN <<>>
    ELSE IF Len(tokens) = 1 THEN QuoteToken(tokens[1])
    ELSE QuoteToken(tokens[1]) \o <<" ">> \o JoinQuoted(Tail(tokens))

\* The command is written without quotes and escapes.
PlainWords(raw) ==
    CountChar(raw, "\"") + CountChar(raw, "'") + CountChar(raw, "\\") = 0

\* C18: the token list of a *_cli call is the binary followed by the words
\* of the command in order; a double-quoted argument with a space in it is
\* one token without the quotes; quoting the tokens, joining them and
\* tokenizing again gives the same token list.
C18_TokenBoundaries ==
    (inv.tool \in CliTools /\ inv.argv # <<>>)
        => /\ Head(inv.argv) = Binary(inv.tool)
           /\ PlainWords(inv.raw)
                  => inv.argv = <<Binary(inv.tool)>> \o StrSplit(inv.raw)
           /\ inv.raw = CmdQuoted
                  => inv.argv = <<Binary(inv.tool), <<"s", "3">>, <<"l", "s">>,
                                  <<"m", "y", " ", "b", "u", "c", "k", "e", "t">> >>
           /\ inv.raw = CmdApostrophe
                  => inv.argv[4] = <<"a", "'", "b", " ", "c">>
           /\ shlex_split(JoinQuoted(inv.argv))
                  = [ok |-> TRUE, tokens |-> inv.argv, error |-> <<>>]

C18_Witness ==
    /\ inv.tool = "aws_cli"
    /\ inv.raw = CmdApostrophe
    /\ inv.pc = "spawning"
    /\ Len(inv.argv) = 4


\* C19: a child process is started and waited for only under a timeout
\* that is positive: 30 when the caller gave none, else the caller's value.
C19_PositiveTimeout ==
    (inv.tool \in CliTools /\ inv.proc # "none") => inv.timeout > 0


\* The steps one *_cli call can take when no other call is in flight.
SoloSucc(r) ==
    (IF r.pc = "spawning"
     THEN {spawn_ok(r)} \cup { spawn_fail(r, e) : e \in OSErrors }
     ELSE {})
    \cup (IF r.proc = "running"
          THEN { child_exit(r, o) : o \in ConcOutcomes } ELSE {})
    \cup (IF CanComplete(r) THEN {complete(r)} ELSE {})
    \cup (IF r.pc = "running" THEN {on_timeout(r)} ELSE {})

RECURSIVE SoloClosure(_)
SoloClosure(S) ==
    LET T == S \cup UNION { SoloSucc(r) : r \in S }
    IN  IF T = S THEN S ELSE SoloClosure(T)

\* Every record a call with the arguments of r can have when it runs alone.
Alone(r) ==
    SoloClosure({execute_command(r.tool, r.raw,
                                 [given |-> TRUE, value |-> r.timeout])})

\* C20: whatever the other calls in flight do, the verdict, the token list,
\* the child and the answer of each call are ones the call can have when
\* it runs alone with the same arguments and the same child behaviour.
C20_Isolated ==
    \A i \in Invs : pool[i].pc # "idle" => pool[i] \in Alone(pool[i])

\* One call has answered with the exit code of its child while another,
\* started before that answer, has timed out and left its child running.
C20_Witness ==
    /\ pool[1].kind = "Completed"
    /\ pool[1].returncode = 2
    /\ pool[2].kind = "TimedOut"
    /\ pool[2].tool # pool[1].tool
    /\ pool[2].proc = "running"


\* The handler of the request is suspended in a wait for its child.
Waiting ==
    /\ inv.pc \in {"running", "http_run", "http_list", "http_mfa"}
    /\ inv.proc = "running"

\* C21: every wait for a child process is under a timeout of its own: as
\* long as a handler waits for a child that has not ended, the timeout can
\* end the wait.
C21_WaitCancellable == Waiting => ENABLED Timeout


\* The command-substitution markers the claim C22 lists.
SubstitutionMarkers == {<<"$", "(">>, <<"backtick">>, <<"$", "{">>, <<"\\">>}

\* C22: under every provider a command that holds "$(", a backquote, "${"
\* or a backslash is Rejected.
C22_SubstitutionRejected ==
    (Evaluated /\ \E m \in SubstitutionMarkers : Contains(gate.raw, m))
        => gate.result.verdict = "Rejected"


\* str.upper on the characters of the model's alphabet.
UpperChar(c) ==
    IF \E k \in 1..Len(LowerChars) : LowerChars[k] = c
    THEN UpperChars[CHOOSE k \in 1..Len(LowerChars) : LowerChars[k] = c]
    ELSE c

Upper(s) == [k \in 1..Len(s) |-> UpperChar(s[k])]

\* C23: under every provider the verdict of a command is the verdict of the
\* same command in lower case and of the same command in upper case, so any
\* two commands that differ only in letter case get the same verdict.
C23_CaseInsensitive ==
    Evaluated
        => /\ Evaluate(gate.provider, Lower(gate.raw)).verdict
                  = gate.result.verdict
           /\ Evaluate(gate.provider, Upper(gate.raw)).verdict
                  = gate.result.verdict

\* A denylisted word in mixed case, and nothing else, is Rejected.
C23_Witness ==
    /\ Evaluated
    /\ gate.provider = "AWS"
    /\ gate.raw = <<"D", "e", "L", "e", "t", "e">>
    /\ gate.result.verdict = "Rejected"


\* What gcloud_cli does at the call with the command and timeout of r.
AsGcloud(r) ==
    execute_command("gcloud_cli", r.raw, [given |-> TRUE, value |-> r.timeout])

\* C25: a gsutil_cli or bq_cli call gets the verdict and the answer that
\* gcloud_cli gives the same command, and where gcloud_cli gets a token
\* list it gets the same list with its own binary name in the first place.
C25_SameGateAsGcloud ==
    (inv.tool \in {"gsutil_cli", "bq_cli"} /\ inv.pc # "idle")
        => /\ inv.verdict = AsGcloud(inv).verdict
           /\ inv.consulted = AsGcloud(inv).consulted
           /\ (inv.verdict = "Allowed")
                  = (Strip(inv.raw) # <<>>
                         /\ GCP_is_safe_command(Strip(inv.raw)))
           /\ AsGcloud(inv).pc = "done"
                  => /\ inv.pc = "done"
                     /\ inv.kind = AsGcloud(inv).kind
                     /\ inv.text = AsGcloud(inv).text
           /\ AsGcloud(inv).pc = "spawning"
                  => /\ inv.argv
                            = <<Binary(inv.tool)>> \o Tail(AsGcloud(inv).argv)
                     /\ Head(AsGcloud(inv).argv) = Binary("gcloud_cli")
                     /\ inv.full_command
                            = Binary(inv.tool) \o <<" ">> \o Strip(inv.raw)

\* gsutil_cli accepted a command that gcloud_cli accepts and tokenized it.
C25_Witness ==
    /\ inv.tool = "gsutil_cli"
    /\ inv.raw = CmdListDryRun
    /\ inv.verdict = "Allowed"
    /\ Len(inv.argv) = 5
    /\ Head(inv.argv) = <<"g", "s", "u", "t", "i", "l">>


\* The strings of the token list that came from the caller of a help tool:
\* all but the binary in front and the help word at the end.
HelpCallerArgs == { inv.argv[k] : k \in 2..(Len(inv.argv) - 1) }

\* C24: whatever a caller supplied to the token list of a provider binary
\* has been accepted by the gate of the provider: the command of a *_cli
\* call, and the "service" and "command" of a help call, none of which
\* starts with "-" or holds a denylisted pattern.
C24_ArgvGated ==
    /\ (inv.tool \in CliTools /\ inv.argv # <<>>)
           => /\ inv.verdict = "Allowed"
              /\ is_safe_command(ToolProvider(inv.tool), Strip(inv.raw))
    /\ (inv.tool \in HelpTools /\ inv.argv # <<>>)
           => \A a \in HelpCallerArgs :
                  /\ ~ StartsWith(a, Dash)
                  /\ is_safe_command(HelpProvider(inv.tool), a)

====
